---- MODULE Spec2Model ----
(***************************************************************************)
(* A model of attest/tpm.go (go-attestation): the TPM 2.0 helpers          *)
(*   readAllPCRs20, quote20, readTPM2VendorAttributes, ParseEKCertificate. *)
(* Each helper is sequential code talking to a TPM (or to the certificate  *)
(* decoder); the TPM and the decoder are the environment, and their        *)
(* answers are nondeterministic inputs of the actions.                     *)
(***************************************************************************)
EXTENDS Integers, Sequences, FiniteSets, TLC

VARIABLES
    pc,        \* position of the caller: "idle", a place inside the operation, "done", "panic"
    \* ---- readAllPCRs20 ----
    alg,       \* the hash bank asked for
    i,         \* the loop counter of readAllPCRs20
    out,       \* the map out: a function from the obtained indices to digests
    sel,       \* the PCRSelection of the latest ReadPCRs command
    result,    \* what the operation returned
    cmds,      \* history: ReadPCRs commands issued in this call
    granted,   \* history: indices the TPM has returned a digest for in this call
    hwFailed,  \* history: a ReadPCRs command of this call failed
    stalled,   \* history: some round returned no index that was new
    \* ---- ParseEKCertificate ----
    ekCert,    \* the argument: its length and its first five bytes
    decoder,   \* what the certificate decoder answers to each of its calls
    certOut,   \* how ParseEKCertificate ended, and what it gave the decoder
    \* ---- readTPM2VendorAttributes ----
    vi,        \* the loop counter over the four vendor-string properties
    reads,     \* the property values the TPM returned, in query order
    vendorInfo,\* the string vendorInfo, as its bytes
    manu,      \* the value of the manufacturer property
    info,      \* what the operation returned
    \* ---- quote20 ----
    tpmLog,    \* the Quote commands the TPM has executed, with its answers
    quotes     \* the calls of quote20 made so far, with what each returned

pcrVars == <<alg, i, out, sel, result, cmds, granted, hwFailed, stalled>>
certVars == <<ekCert, decoder, certOut>>
vendorVars == <<vi, reads, vendorInfo, manu, info>>
quoteVars == <<tpmLog, quotes>>

vars == <<pc, pcrVars, certVars, vendorVars, quoteVars>>

-----------------------------------------------------------------------------
(* readAllPCRs20, tpm.go:232-268 *)

numPCRs == 24

PCRIndices == 0 .. (numPCRs - 1)

HashAlgs == {"SHA1", "SHA256"}

\* The PCR bank the modelled TPM holds: index -> digest.
Bank == [p \in PCRIndices |-> IF p % 2 = 0 THEN "d0" ELSE "d1"]

\* No command in flight.
NoSel == [Hash |-> "none", PCRs |-> {}]

\* The loop bound of `for i := 0; i < numPCRs; i++`.
\* (MaxRoundsShort: a loop that gives up one round early, a fault C10 must notice.)
MaxRoundsShort == numPCRs - 1
MaxRounds == numPCRs

\* The selection built at the top of a round: every index with no entry in o.
\* (sel.PCRs is an ascending duplicate-free list in the source; a set here.)
\* (SelectAll: a selection that asks for everything again, a fault C6 must notice.)
SelectAll(o) == PCRIndices
SelectMissing(o) == { p \in PCRIndices : p \notin DOMAIN o }

\* `for pcr, digest := range ret { out[uint32(pcr)] = digest }`
Merge(o, ret) ==
    [p \in (DOMAIN o) \cup (DOMAIN ret) |-> IF p \in DOMAIN ret THEN ret[p] ELSE o[p]]

\* `if len(out) == numPCRs { break }`
\* (AllReadNever: a loop that never breaks, a fault C7 must notice.)
AllReadNever(o) == FALSE
AllRead(o) == Cardinality(DOMAIN o) = numPCRs

NilResult(e) == [isNil |-> TRUE, vals |-> << >>, err |-> e]

\* The check after the loop, and the return.
\* (AfterLoopPartial: a return without the length check, a fault C1 must notice.)
AfterLoopPartial(o) == [isNil |-> FALSE, vals |-> o, err |-> "nil"]
AfterLoop(o) ==
    IF Cardinality(DOMAIN o) # numPCRs
    THEN NilResult("failed to read all PCRs")
    ELSE [isNil |-> FALSE, vals |-> o, err |-> "nil"]

\* What a failed ReadPCRs makes the operation return.
\* (ReadErrorKeeps: an error return that keeps the map, a fault C8 must notice.)
ReadErrorKeeps(o) == [isNil |-> FALSE, vals |-> o, err |-> "tpm2.ReadPCRs failed"]
ReadError(o) == NilResult("tpm2.ReadPCRs failed")

\* The k lowest / the k highest members of S.
Lowest(S, k) == { p \in S : Cardinality({ q \in S : q < p }) < k }
Highest(S, k) == { p \in S : Cardinality({ q \in S : q > p }) < k }

\* The TPM may fulfil a request partially: the modelled TPMs answer with the
\* digests of the k lowest or of the k highest requested indices, k from 0
\* (nothing) to all of them.
Grants(S) ==
    { Lowest(S, k) : k \in 0 .. Cardinality(S) }
        \cup { Highest(S, k) : k \in 0 .. Cardinality(S) }

PCRIdle ==
    /\ alg = "none"
    /\ i = 0
    /\ out = << >>
    /\ sel = NoSel
    /\ result = NilResult("nil")
    /\ cmds = 0
    /\ granted = {}
    /\ hwFailed = FALSE
    /\ stalled = FALSE

\* The call: numPCRs := 24; out := map{}; i := 0.
readAllPCRs20_Call ==
    /\ pc = "idle"
    /\ \E a \in HashAlgs : alg' = a
    /\ pc' = "loop"
    /\ UNCHANGED <<i, out, sel, result, cmds, granted, hwFailed, stalled>>
    /\ UNCHANGED <<certVars, vendorVars, quoteVars>>

\* The top of an iteration: the selection is built and tpm2.ReadPCRs sends it.
readAllPCRs20_SendReadPCRs ==
    /\ pc = "loop"
    /\ i < MaxRounds
    /\ sel' = [Hash |-> alg, PCRs |-> SelectMissing(out)]
    /\ cmds' = cmds + 1
    /\ pc' = "read"
    /\ UNCHANGED <<alg, i, out, result, granted, hwFailed, stalled>>
    /\ UNCHANGED <<certVars, vendorVars, quoteVars>>

\* tpm2.ReadPCRs returns the digests of the indices in g; the rest of the
\* iteration: the merge, the break, the check after the loop, i++.
readAllPCRs20_ReadPCRsReturns ==
    /\ pc = "read"
    /\ \E g \in Grants(sel.PCRs) :
         LET ret == [p \in g |-> Bank[p]]
             o2  == Merge(out, ret)
         IN  /\ out' = o2
             /\ granted' = granted \cup g
             /\ stalled' = (stalled \/ (g \subseteq granted))
             /\ IF AllRead(o2)
                THEN /\ pc' = "done"
                     /\ result' = AfterLoop(o2)
                     /\ i' = i
                ELSE /\ pc' = "loop"
                     /\ result' = result
                     /\ i' = i + 1
    /\ sel' = NoSel
    /\ UNCHANGED <<alg, cmds, hwFailed>>
    /\ UNCHANGED <<certVars, vendorVars, quoteVars>>

\* tpm2.ReadPCRs returns an error: the operation returns at once.
readAllPCRs20_ReadPCRsFails ==
    /\ pc = "read"
    /\ hwFailed' = TRUE
    /\ result' = ReadError(out)
    /\ pc' = "done"
    /\ sel' = NoSel
    /\ UNCHANGED <<alg, i, out, cmds, granted, stalled>>
    /\ UNCHANGED <<certVars, vendorVars, quoteVars>>

\* The loop condition fails: the check after the loop decides.
readAllPCRs20_Exhausted ==
    /\ pc = "loop"
    /\ ~(i < MaxRounds)
    /\ result' = AfterLoop(out)
    /\ pc' = "done"
    /\ UNCHANGED <<alg, i, out, sel, cmds, granted, hwFailed, stalled>>
    /\ UNCHANGED <<certVars, vendorVars, quoteVars>>

\* The caller takes the result; the session is free for the next call.
readAllPCRs20_Return ==
    /\ pc = "done"
    /\ pc' = "idle"
    /\ alg' = "none"
    /\ i' = 0
    /\ out' = << >>
    /\ sel' = NoSel
    /\ result' = NilResult("nil")
    /\ cmds' = 0
    /\ granted' = {}
    /\ hwFailed' = FALSE
    /\ stalled' = FALSE
    /\ UNCHANGED <<certVars, vendorVars, quoteVars>>

-----------------------------------------------------------------------------
(* ParseEKCertificate, tpm.go:153-189 *)

\* A byte string is known by its length and its first five bytes (fewer when
\* it is shorter): the code looks at nothing else, the rest goes to the
\* decoder.  A slice of it is a pair of offsets into it.

\* The longest suffix T after a wrapped certificate that the inputs try.
MaxTrailing == 2

\* uint16 arithmetic wraps.
Uint16(x) == x % 65536

\* binary.BigEndian.Uint16(ekCert[3:5])
BigEndianUint16(b) == b[1] * 256 + b[2]

nvramTag == <<16, 1, 0>>

\* `len(ekCert) > 5 && bytes.Equal(ekCert[:3], []byte{0x10, 0x01, 0x00})`
HasHeader(c) == c.len > 5 /\ SubSeq(c.head, 1, 3) = nvramTag

NoView == [lo |-> 0 - 1, hi |-> 0 - 1]

\* The header step: certLen is a uint16, so certLen+5 and 5+certLen are
\* computed in 16 bits.  A slice expression whose high bound is below its
\* low bound panics.
Unwrap(c) ==
    IF ~HasHeader(c)
    THEN [kind |-> "parse", view |-> [lo |-> 0, hi |-> c.len], wasWrapped |-> FALSE]
    ELSE LET certLen == BigEndianUint16(SubSeq(c.head, 4, 5))
         IN  IF c.len < Uint16(certLen + 5)
             THEN [kind |-> "error", view |-> NoView, wasWrapped |-> FALSE]
             ELSE IF Uint16(5 + certLen) < 5
             THEN [kind |-> "panic", view |-> NoView, wasWrapped |-> FALSE]
             ELSE [kind |-> "parse", view |-> [lo |-> 5, hi |-> Uint16(5 + certLen)],
                   wasWrapped |-> TRUE]

\* The decoder's answers: no error, a non-fatal error (x509.IsFatal false), a
\* fatal one.
Answers == {"ok", "nonfatal", "fatal"}
DecoderAnswers == [strict1 : Answers, lax : Answers, strict2 : Answers]

\* The parsing after the header step: strict, then lenient extraction and
\* strict again.  calls lists the decoder calls made.
\* (ParseStrictOnly: every decoder error taken as fatal, a fault C4 must notice.)
ParseStrictOnly(d) ==
    IF d.strict1 = "ok"
    THEN [cert |-> "c1", err |-> "nil", calls |-> <<"x509.ParseCertificate">>]
    ELSE IF d.lax # "ok"
    THEN [cert |-> "nil", err |-> "asn1.Unmarshal() failed",
          calls |-> <<"x509.ParseCertificate", "asn1.UnmarshalWithParams">>]
    ELSE IF d.strict2 # "ok"
    THEN [cert |-> "nil", err |-> "x509.ParseCertificate() failed",
          calls |-> <<"x509.ParseCertificate", "asn1.UnmarshalWithParams",
                      "x509.ParseCertificate">>]
    ELSE [cert |-> "c2", err |-> "nil",
          calls |-> <<"x509.ParseCertificate", "asn1.UnmarshalWithParams",
                      "x509.ParseCertificate">>]
Parse(d) ==
    IF d.strict1 = "ok"
    THEN [cert |-> "c1", err |-> "nil", calls |-> <<"x509.ParseCertificate">>]
    ELSE IF d.lax = "fatal"
    THEN [cert |-> "nil", err |-> "asn1.Unmarshal() failed",
          calls |-> <<"x509.ParseCertificate", "asn1.UnmarshalWithParams">>]
    ELSE IF d.strict2 = "fatal"
    THEN [cert |-> "nil", err |-> "x509.ParseCertificate() failed",
          calls |-> <<"x509.ParseCertificate", "asn1.UnmarshalWithParams",
                      "x509.ParseCertificate">>]
    ELSE [cert |-> "c2", err |-> "nil",
          calls |-> <<"x509.ParseCertificate", "asn1.UnmarshalWithParams",
                      "x509.ParseCertificate">>]

ParseEKCertificate(c, d) ==
    LET u == Unwrap(c)
    IN  IF u.kind = "panic"
        THEN [kind |-> "panic", cert |-> "nil", err |-> "nil", calls |-> << >>,
              handed |-> NoView, wasWrapped |-> FALSE]
        ELSE IF u.kind = "error"
        THEN [kind |-> "return", cert |-> "nil", err |-> "parsing nvram header",
              calls |-> << >>, handed |-> NoView, wasWrapped |-> FALSE]
        ELSE LET r == Parse(d)
             IN  [kind |-> "return", cert |-> r.cert, err |-> r.err, calls |-> r.calls,
                  handed |-> u.view, wasWrapped |-> u.wasWrapped]

\* The inputs tried: every combination of three leading bytes, a length
\* field and a total length around the declared one.
LeadingBytes == {nvramTag, <<48, 130, 4>>, <<16, 1, 1>>}
HighBytes == {0, 1, 255}
LowBytes == {0, 1, 250, 251, 255}
Lengths(declared) ==
    (0 .. 6) \cup {declared + 4} \cup {declared + 5 + t : t \in 0 .. MaxTrailing}

CertInputs ==
    UNION { { [len |-> n, head |-> SubSeq(x[1] \o <<x[2], x[3]>>, 1, IF n < 5 THEN n ELSE 5)] :
                n \in Lengths(x[2] * 256 + x[3]) } :
            x \in LeadingBytes \X HighBytes \X LowBytes }

NoCertOut ==
    [kind |-> "none", cert |-> "nil", err |-> "nil", calls |-> << >>,
     handed |-> NoView, wasWrapped |-> FALSE]

CertIdle ==
    /\ ekCert = [len |-> 0, head |-> << >>]
    /\ decoder = [strict1 |-> "ok", lax |-> "ok", strict2 |-> "ok"]
    /\ certOut = NoCertOut

\* A call ParseEKCertificate(ekCert).
ParseEKCertificate_Call ==
    /\ pc = "idle"
    /\ certOut' = ParseEKCertificate(ekCert, decoder)
    /\ pc' = IF certOut'.kind = "panic" THEN "panic" ELSE "done"
    /\ UNCHANGED <<ekCert, decoder, pcrVars, vendorVars, quoteVars>>

-----------------------------------------------------------------------------
(* readTPM2VendorAttributes, tpm.go:108-151 *)

\* A uint32 is kept as its two 16-bit halves, [hi, lo] for hi * 2^16 + lo.
\* The 32-bit value packing the octets b3, b2, b1, b0 big-endian:
Word(b3, b2, b1, b0) == [hi |-> b3 * 256 + b2, lo |-> b1 * 256 + b0]

\* The octets of a 32-bit value, most significant first.
Octets(v) == <<v.hi \div 256, v.hi % 256, v.lo \div 256, v.lo % 256>>

\* v & 0xFF000000, v & 0xFF0000, v & 0xFF00, v & 0xFF
MaskFF000000(v) == [hi |-> (v.hi \div 256) * 256, lo |-> 0]
MaskFF0000(v) == [hi |-> v.hi % 256, lo |-> 0]
MaskFF00(v) == [hi |-> 0, lo |-> (v.lo \div 256) * 256]
MaskFF(v) == [hi |-> 0, lo |-> v.lo % 256]

\* The UTF-8 encoding of a code point.
EncodeRune(x) ==
    IF x < 128 THEN <<x>>
    ELSE IF x < 2048 THEN <<192 + (x \div 64), 128 + (x % 64)>>
    ELSE IF x < 65536
    THEN <<224 + (x \div 4096), 128 + ((x \div 64) % 64), 128 + (x % 64)>>
    ELSE <<240 + (x \div 262144), 128 + ((x \div 4096) % 64),
           128 + ((x \div 64) % 64), 128 + (x % 64)>>

\* Go's conversion string(v) of an integer v: the UTF-8 encoding of the code
\* point v, and of U+FFFD when v is a surrogate or above U+10FFFF.
RuneString(v) ==
    LET x == v.hi * 65536 + v.lo
    IN  IF v.hi > 16 \/ (x >= 55296 /\ x <= 57343)
        THEN EncodeRune(65533)
        ELSE EncodeRune(x)

\* `string(v&0xFF000000) + string(v&0xFF0000) + string(v&0xFF00) + string(v&0xFF)`
VendorChunk(v) ==
    RuneString(MaskFF000000(v)) \o RuneString(MaskFF0000(v))
        \o RuneString(MaskFF00(v)) \o RuneString(MaskFF(v))

RECURSIVE TrimLeft(_)
TrimLeft(s) == IF s # << >> /\ Head(s) = 0 THEN TrimLeft(Tail(s)) ELSE s

RECURSIVE TrimRight(_)
TrimRight(s) ==
    IF s # << >> /\ s[Len(s)] = 0 THEN TrimRight(SubSeq(s, 1, Len(s) - 1)) ELSE s

\* strings.Trim(s, "\x00"): the NUL bytes at both ends go.
Trim(s) == TrimRight(TrimLeft(s))

\* The property values the modelled TPMs hold: "IBM\0", "\0\0\0A", zero, and
\* words with a single octet set.
VendorWords ==
    { Word(73, 66, 77, 0), Word(0, 0, 0, 65), Word(0, 0, 0, 0), Word(65, 0, 0, 0),
      Word(0, 16, 0, 0), Word(0, 0, 216, 0), Word(0, 0, 0, 233) }
ManufacturerWords == { Word(73, 66, 77, 0), Word(73, 78, 84, 67) }
FirmwareWords == { Word(0, 7, 0, 62), Word(255, 255, 255, 255) }

NoWord == [hi |-> 0, lo |-> 0]

NoInfo == [vendor |-> << >>, manufacturer |-> NoWord, fwMajor |-> 0, fwMinor |-> 0, err |-> "none"]

VendorIdle ==
    /\ vi = 0
    /\ reads = << >>
    /\ vendorInfo = << >>
    /\ manu = NoWord
    /\ info = NoInfo

readTPM2VendorAttributes_Call ==
    /\ pc = "idle"
    /\ pc' = "vendor"
    /\ UNCHANGED vendorVars
    /\ UNCHANGED <<pcrVars, certVars, quoteVars>>

\* One iteration of the loop: GetCapability(PT_VENDOR_STRING_(vi+1)) returns v.
readTPM2VendorAttributes_VendorString ==
    /\ pc = "vendor"
    /\ vi < 4
    /\ \E v \in VendorWords :
         /\ reads' = Append(reads, v)
         /\ vendorInfo' = vendorInfo \o VendorChunk(v)
    /\ vi' = vi + 1
    /\ pc' = IF vi' < 4 THEN "vendor" ELSE "manufacturer"
    /\ UNCHANGED <<manu, info>>
    /\ UNCHANGED <<pcrVars, certVars, quoteVars>>

\* GetCapability(PT_MANUFACTURER) returns m.
readTPM2VendorAttributes_Manufacturer ==
    /\ pc = "manufacturer"
    /\ \E m \in ManufacturerWords : manu' = m
    /\ pc' = "firmware"
    /\ UNCHANGED <<vi, reads, vendorInfo, info>>
    /\ UNCHANGED <<pcrVars, certVars, quoteVars>>

\* GetCapability(PT_FIRMWARE_VERSION_1) returns fw; the result is built.
readTPM2VendorAttributes_Firmware ==
    /\ pc = "firmware"
    /\ \E fw \in FirmwareWords :
         info' = [vendor |-> Trim(vendorInfo), manufacturer |-> manu,
                  fwMajor |-> fw.hi, fwMinor |-> fw.lo, err |-> "nil"]
    /\ pc' = "done"
    /\ UNCHANGED <<vi, reads, vendorInfo, manu>>
    /\ UNCHANGED <<pcrVars, certVars, quoteVars>>

\* A GetCapability call fails, or its answer is no TaggedProperty.
readTPM2VendorAttributes_GetCapabilityFails ==
    /\ pc \in {"vendor", "manufacturer", "firmware"}
    /\ \E e \in {"tpm2.GetCapability failed", "got capability of another type"} :
         info' = [NoInfo EXCEPT !.err = e]
    /\ pc' = "done"
    /\ UNCHANGED <<vi, reads, vendorInfo, manu>>
    /\ UNCHANGED <<pcrVars, certVars, quoteVars>>

readTPM2VendorAttributes_Return ==
    /\ pc = "done"
    /\ pc' = "idle"
    /\ vi' = 0
    /\ reads' = << >>
    /\ vendorInfo' = << >>
    /\ manu' = NoWord
    /\ info' = NoInfo
    /\ UNCHANGED <<pcrVars, certVars, quoteVars>>

-----------------------------------------------------------------------------
(* quote20, tpm.go:212-230 *)

\* The number of calls of quote20 a behaviour makes.
MaxQuoteCalls == 3

numPCRsQuote == 24

Nonces == {"n1", "n2"}
AIKHandles == {"aik1"}

\* `sel := tpm2.PCRSelection{Hash: hashAlg}` and the loop appending 0..23.
QuoteSelection(hashAlg) == [Hash |-> hashAlg, PCRs |-> 0 .. (numPCRsQuote - 1)]

\* The Quote command quote20 sends for its arguments.
\* (QuoteCommandFixedNonce: a command that ignores the caller's nonce, a fault C5
\* must notice.)
QuoteCommandFixedNonce(aikHandle, hashAlg, nonce) ==
    [handle |-> aikHandle, nonce |-> "n1", sel |-> QuoteSelection(hashAlg), scheme |-> "AlgNull"]
QuoteCommand(aikHandle, hashAlg, nonce) ==
    [handle |-> aikHandle, nonce |-> nonce, sel |-> QuoteSelection(hashAlg), scheme |-> "AlgNull"]

\* What the TPM answers to its n-th Quote command: an error, or the
\* attestation structure (it carries the nonce, the selection and the TPM's
\* clock, so no two commands get the same one) and a signature over it, RSA
\* or, for a key that is not an RSA key, ECC.
TPMAnswers(cmd, n) ==
    {[err |-> "tpm2.Quote failed", attest |-> << >>, sig |-> << >>]}
        \cup { [err |-> "nil",
                attest |-> <<"TPMS_ATTEST", cmd.nonce, cmd.sel, n>>,
                sig |-> [Alg |-> a, HashAlg |-> "SHA256", Signature |-> <<"signature", n>>]] :
               a \in {"RSASSA", "ECDSA"} }

\* tpmutil.Pack(sig.Alg, sig.RSA.HashAlg, sig.RSA.Signature)
Pack(sig) == <<sig.Alg, sig.HashAlg, sig.Signature>>

NoQuote == [isNil |-> TRUE, Version |-> "none", Quote |-> << >>, Signature |-> << >>]

\* quote20 past the Quote command: its return values for the TPM's answer
\* ans and for the error (or "nil") of tpmutil.Pack.  sig.RSA is nil for a
\* signature that is not RSA, and reading through it panics.
QuoteReturn(ans, packErr) ==
    IF ans.err # "nil"
    THEN [kind |-> "return", quote |-> NoQuote, err |-> ans.err]
    ELSE IF ans.sig.Alg # "RSASSA"
    THEN [kind |-> "panic", quote |-> NoQuote, err |-> "nil"]
    ELSE [kind |-> "return",
          quote |-> [isNil |-> FALSE, Version |-> "TPMVersion20", Quote |-> ans.attest,
                     Signature |-> IF packErr = "nil" THEN Pack(ans.sig) ELSE << >>],
          err |-> packErr]

QuoteIdle ==
    /\ tpmLog = << >>
    /\ quotes = << >>

\* A call quote20(tpm, aikHandle, hashAlg, nonce): the selection is built, the
\* Quote command is sent, the TPM answers, the signature is packed.
quote20_Call ==
    /\ pc = "idle"
    /\ Len(quotes) < MaxQuoteCalls
    /\ \E aikHandle \in AIKHandles, hashAlg \in HashAlgs, nonce \in Nonces :
         LET cmd == QuoteCommand(aikHandle, hashAlg, nonce)
         IN  \E ans \in TPMAnswers(cmd, Len(tpmLog) + 1),
                packErr \in {"nil", "tpmutil.Pack failed"} :
                LET r == QuoteReturn(ans, packErr)
                IN  /\ tpmLog' = Append(tpmLog, [cmd |-> cmd, ans |-> ans])
                    /\ quotes' = Append(quotes,
                          [aikHandle |-> aikHandle, hashAlg |-> hashAlg, nonce |-> nonce,
                           ret |-> r])
                    /\ pc' = IF r.kind = "panic" THEN "panic" ELSE "idle"
    /\ UNCHANGED <<pcrVars, certVars, vendorVars>>

-----------------------------------------------------------------------------
(* Specifications *)

InitPCR == pc = "idle" /\ PCRIdle /\ CertIdle /\ VendorIdle /\ QuoteIdle

NextPCR ==
    \/ readAllPCRs20_Call
    \/ readAllPCRs20_SendReadPCRs
    \/ readAllPCRs20_ReadPCRsReturns
    \/ readAllPCRs20_ReadPCRsFails
    \/ readAllPCRs20_Exhausted
    \/ readAllPCRs20_Return

SpecPCR == InitPCR /\ [][NextPCR]_vars

\* ParseEKCertificate is a function of its argument and of the decoder's
\* answers: the initial states draw them.
InitCert ==
    /\ pc = "idle"
    /\ ekCert \in CertInputs
    /\ decoder \in DecoderAnswers
    /\ certOut = NoCertOut
    /\ PCRIdle /\ VendorIdle /\ QuoteIdle

NextCert == ParseEKCertificate_Call

SpecCert == InitCert /\ [][NextCert]_vars

InitVendor == pc = "idle" /\ PCRIdle /\ CertIdle /\ VendorIdle /\ QuoteIdle

NextVendor ==
    \/ readTPM2VendorAttributes_Call
    \/ readTPM2VendorAttributes_VendorString
    \/ readTPM2VendorAttributes_Manufacturer
    \/ readTPM2VendorAttributes_Firmware
    \/ readTPM2VendorAttributes_GetCapabilityFails
    \/ readTPM2VendorAttributes_Return

SpecVendor == InitVendor /\ [][NextVendor]_vars

InitQuote == pc = "idle" /\ PCRIdle /\ CertIdle /\ VendorIdle /\ QuoteIdle

NextQuote == quote20_Call

SpecQuote == InitQuote /\ [][NextQuote]_vars

-----------------------------------------------------------------------------
(* Properties of readAllPCRs20 *)

\* The indices of a 24-register bank.
AllIndices == 0 .. 23

Succeeded == result.err = "nil" /\ ~result.isNil
Failed == result.err # "nil" /\ result.isNil /\ result.vals = << >>

\* C1: whatever partial answers the TPM gives, a finished readAllPCRs20 has
\* either returned a map holding a digest for exactly the indices 0..23, or an
\* error and no map; never a map with fewer entries.
C1_AllOrNothing ==
    pc = "done" =>
        \/ Succeeded /\ DOMAIN result.vals = AllIndices
        \/ Failed

\* A call that succeeded although the TPM answered partially (one answer
\* even brought nothing new).
C1_Witness ==
    pc = "done" /\ Succeeded /\ stalled /\ cmds > 2
        /\ Cardinality(DOMAIN result.vals) = 24

\* C6: the selection of every ReadPCRs command is exactly the set of
\* indices the TPM has not yet returned a digest for in this call.
C6_SelectsOnlyMissing ==
    pc = "read" => sel.PCRs = AllIndices \ granted

\* A third or later command in flight after some indices were obtained.
C6_Witness ==
    pc = "read" /\ cmds > 2 /\ granted # {} /\ sel.PCRs # {}

\* What is left of a call in progress: two steps for every command not yet
\* issued, one for an answer awaited.
Remaining == 2 * (24 - cmds) + (IF pc = "read" THEN 1 ELSE 0)

Running == pc \in {"loop", "read"}

C8_ReadErrorReturnsAtOnce ==
    hwFailed =>
        /\ pc = "done"
        /\ Failed
        /\ result.err = "tpm2.ReadPCRs failed"

\* A command failed after earlier rounds had gathered digests.
C8_Witness ==
    hwFailed /\ pc = "done" /\ granted # {} /\ cmds > 1

-----------------------------------------------------------------------------
(* Properties of ParseEKCertificate *)

\* The argument is the wrapped form of a certificate C followed by a suffix
\* T: the tag, the two-byte length of C, then at least that many bytes.
DeclaredLen == BigEndianUint16(SubSeq(ekCert.head, 4, 5))
IsWrappedForm ==
    /\ ekCert.len >= 5
    /\ SubSeq(ekCert.head, 1, 3) = nvramTag
    /\ ekCert.len >= 5 + DeclaredLen

\* C3: for the wrapped form of any C (up to 65535 bytes) and any suffix T,
\* ParseEKCertificate hands exactly the bytes of C, the slice from offset 5
\* to offset 5 + len(C), to certificate parsing.
C3_WrappedHandsPayload ==
    (pc # "idle" /\ IsWrappedForm) =>
        /\ certOut.kind = "return"
        /\ certOut.handed = [lo |-> 5, hi |-> 5 + DeclaredLen]

\* C4: once past the header step, the strict parse comes first and its
\* certificate is returned when it succeeds; otherwise an error and no
\* certificate are returned exactly when the lenient extraction or the
\* second strict parse fails fatally, and a certificate and no error
\* otherwise.
C4_OnlyFatalErrorsPropagate ==
    (pc = "done" /\ certOut.err # "parsing nvram header") =>
        /\ certOut.calls # << >> /\ certOut.calls[1] = "x509.ParseCertificate"
        /\ decoder.strict1 = "ok" =>
               (certOut.cert = "c1" /\ certOut.err = "nil" /\ Len(certOut.calls) = 1)
        /\ decoder.strict1 # "ok" =>
               /\ (certOut.err # "nil") <=> (decoder.lax = "fatal" \/ decoder.strict2 = "fatal")
               /\ (certOut.err # "nil") <=> (certOut.cert = "nil")

\* An unwrapped certificate whose strict parse failed and whose lenient
\* extraction and second parse met only non-fatal deviations.
C4_Witness ==
    /\ pc = "done" /\ certOut.wasWrapped
    /\ decoder.strict1 = "fatal" /\ decoder.lax = "nonfatal" /\ decoder.strict2 = "nonfatal"
    /\ certOut.err = "nil" /\ certOut.cert = "c2"

\* C9: an input longer than 5 bytes that begins with the tag and declares a
\* length L with L + 5 beyond its end gets the header-parsing error, for
\* every L in 0..65535.
C9_ShortInputRejected ==
    (pc # "idle" /\ ekCert.len > 5 /\ SubSeq(ekCert.head, 1, 3) = nvramTag
        /\ DeclaredLen + 5 > ekCert.len) =>
        /\ certOut.kind = "return"
        /\ certOut.err = "parsing nvram header"

-----------------------------------------------------------------------------
(* Properties of readTPM2VendorAttributes *)

RECURSIVE Concat(_)
Concat(ss) == IF ss = << >> THEN << >> ELSE Head(ss) \o Concat(Tail(ss))

\* C2: the vendor string returned is the 16 octets of the four values read,
\* most significant octet first and in query order, less the trailing zero
\* octets.
C2_VendorIsPackedOctets ==
    (pc = "done" /\ info.err = "nil") =>
        info.vendor = TrimRight(Concat([k \in 1 .. 4 |-> Octets(reads[k])]))

-----------------------------------------------------------------------------
(* Properties of quote20 *)

QuoteSucceeded(k) == quotes[k].ret.kind = "return" /\ quotes[k].ret.err = "nil"

\* C5: every call of quote20 sends its own Quote command, selecting exactly
\* the indices 0..23 of the bank asked for and carrying the caller's nonce;
\* a successful call returns a Quote of version 2.0 with the attestation
\* bytes and the packed signature of that very command, so no two calls
\* return the same one.
C5_EveryQuoteIsFresh ==
    /\ Len(tpmLog) = Len(quotes)
    /\ \A k \in 1 .. Len(quotes) :
         /\ tpmLog[k].cmd.sel = [Hash |-> quotes[k].hashAlg, PCRs |-> AllIndices]
         /\ tpmLog[k].cmd.nonce = quotes[k].nonce
         /\ tpmLog[k].cmd.handle = quotes[k].aikHandle
         /\ QuoteSucceeded(k) =>
                /\ ~quotes[k].ret.quote.isNil
                /\ quotes[k].ret.quote.Version = "TPMVersion20"
                /\ quotes[k].ret.quote.Quote = tpmLog[k].ans.attest
                /\ quotes[k].ret.quote.Signature = Pack(tpmLog[k].ans.sig)
         /\ \A j \in 1 .. (k - 1) :
                (QuoteSucceeded(j) /\ QuoteSucceeded(k)) =>
                    quotes[j].ret.quote # quotes[k].ret.quote

\* Two successful calls with the same nonce and the same bank.
C5_Witness ==
    \E j, k \in 1 .. Len(quotes) :
        /\ j < k
        /\ QuoteSucceeded(j) /\ QuoteSucceeded(k)
        /\ quotes[j].nonce = quotes[k].nonce
        /\ quotes[j].hashAlg = quotes[k].hashAlg

====
